---- MODULE Spec2Model ----
(***************************************************************************)
(* A model of the audio-to-text pipeline: the chunk planner                *)
(* (audio_splitter.py), the section segmenters (translate_text.py,         *)
(* combine_txt_files.py, generate_embeddings.py), the token-budget batcher *)
(* and the batch dispatcher (translate_text.py), the reassembler           *)
(* (combine_batches.py), and the POI parser, the embedding loop and the    *)
(* vector compactor (generate_embeddings.py).                              *)
(*                                                                         *)
(* Python strings are sequences of one-character strings.  Durations are   *)
(* exact rationals: a whole number of ticks, TicksPerSecond ticks to the    *)
(* second.                                                                 *)
(***************************************************************************)
EXTENDS Integers, Sequences, FiniteSets, TLC

VARIABLES
    \* audio_splitter.split_audio
    total_duration,          \* ffprobe's duration, in ticks
    chunk_duration_minutes,  \* argument
    overlap_seconds,         \* argument
    total_chunks,            \* the planned number of windows
    chunk_i,                 \* the loop variable i of the for loop
    ffmpeg_cmds,             \* the (-ss, -t) pairs handed to ffmpeg, in order
    split_pc,
    \* translate_text.create_batches
    cb_sections,             \* argument sections
    cb_token_limit,          \* argument token_limit
    cb_result,               \* the returned batches
    cb_pc,
    \* translate_text.split_into_sections, generate_embeddings.parse_poi_file
    seg_content,             \* the text read from the file
    seg_sections,            \* split_into_sections(content)
    poi_contents,            \* the content of each POI parse_poi_file returns
    seg_pc,
    \* combine_txt_files.process_combined_text
    ht_content,              \* the text read from input_file
    ht_parts,                \* parts, after the loop of lines 109-125
    ht_processed_parts,      \* processed_parts
    ht_output,               \* the text written to output_file
    ht_pc,
    \* translate_text.translate_batch
    tb_batch,                \* argument batch
    tb_outcome,              \* what model.generate_content does: raise, or reply
    tb_return,               \* how the call ends: the list returned, or a raise
    tb_pc,
    \* translate_text.main
    api_key,                 \* whether GOOGLE_API_KEY is set
    input_text,              \* the text of input_file
    main_batches,            \* batches = create_batches(sections)
    batch_i,                 \* the loop variable i
    translated_batch,        \* the value of the last translate_batch call
    sections_completed,
    service_log,             \* the texts the service was sent, in order
    results,                 \* the values translate_batch returned, in order
    sleeps,                  \* the number of time.sleep(10) calls
    files,                   \* the directory of batch files: name -> text
    main_pc,
    \* combine_batches.combine_batches
    combined_content,
    combined_file,           \* the text written to output_file
    combine_pc,
    \* generate_embeddings.parse_poi_file, generate_embeddings_for_pois
    ge_content,              \* the text of the POI file
    ge_pois,                 \* the POIs parse_poi_file returns
    ge_i,                    \* the loop variable i
    ge_calls,                \* the texts the embedding service was sent, in order
    ge_processed,            \* processed_pois
    ge_sleeps,               \* the number of time.sleep(CONFIG["delay"]) calls
    ge_next_id,              \* the next fresh identifier uuid4 gives
    ge_pc,
    \* generate_embeddings.optimize_embedding
    oe_embedding,            \* argument embedding
    oe_decimals,             \* argument decimals
    oe_once,                 \* optimize_embedding(embedding, decimals)
    oe_twice,                \* optimize_embedding of that value, same decimals
    oe_pc,
    \* generate_embeddings.save_embeddings_to_json
    sv_pois,                 \* argument pois
    sv_decimals,             \* argument decimals
    sv_compress,             \* argument compress
    sv_pois_data,            \* pois_data
    sv_file,                 \* the file written: its name and what it holds
    sv_return,
    sv_pc

varsSplit == <<total_duration, chunk_duration_minutes, overlap_seconds,
               total_chunks, chunk_i, ffmpeg_cmds, split_pc>>
varsBatcher == <<cb_sections, cb_token_limit, cb_result, cb_pc>>
varsSegmenter == <<seg_content, seg_sections, poi_contents, seg_pc>>
varsHashtag == <<ht_content, ht_parts, ht_processed_parts, ht_output, ht_pc>>
varsTranslateBatch == <<tb_batch, tb_outcome, tb_return, tb_pc>>
varsMain == <<api_key, input_text, main_batches, batch_i, translated_batch,
              sections_completed, service_log, results, sleeps, files, main_pc>>
varsCombine == <<combined_content, combined_file, combine_pc>>
varsEmbed == <<ge_content, ge_pois, ge_i, ge_calls, ge_processed, ge_sleeps,
               ge_next_id, ge_pc>>
varsOptimize == <<oe_embedding, oe_decimals, oe_once, oe_twice, oe_pc>>
varsSave == <<sv_pois, sv_decimals, sv_compress, sv_pois_data, sv_file,
              sv_return, sv_pc>>
varsPoi == <<varsEmbed, varsOptimize, varsSave>>
vars == <<varsSplit, varsBatcher, varsSegmenter, varsHashtag, varsTranslateBatch,
          varsMain, varsCombine, varsPoi>>

(***************************************************************************)
(* Bounds of the model.                                                    *)
(***************************************************************************)
TicksPerSecond == 2
MaxDurationTicks == 400
MaxChunkMinutes == 2
MaxOverlap == 2
MaxSections == 4
MaxTokenLimit == 3
MaxContentLen == 6
MaxHashPieces == 4
MaxBatchLen == 3
MaxResponsePieces == 3
MaxMainSections == 3
MaxPois == 2
MaxDecimals == 2
MaxVectorLen == 2
MaxSavedPois == 2

(***************************************************************************)
(* Sequence helpers.                                                       *)
(***************************************************************************)
RECURSIVE Flatten(_)
Flatten(ss) == IF ss = <<>> THEN <<>> ELSE Head(ss) \o Flatten(Tail(ss))

RECURSIVE SumSeq(_)
SumSeq(ns) == IF ns = <<>> THEN 0 ELSE Head(ns) + SumSeq(Tail(ns))

SeqsUpTo(S, n) == UNION {[1..k -> S] : k \in 0..n}

Min(S) == CHOOSE x \in S : \A y \in S : x <= y
Max(S) == CHOOSE x \in S : \A y \in S : x >= y

(***************************************************************************)
(* Python's str operations.                                                *)
(***************************************************************************)
\* The characters str.strip() and str.split() take for whitespace.
Whitespace == {" ", "\n", "\t"}

\* s.strip(): from the first to the last character that is not whitespace
Strip(s) ==
    IF \A k \in 1..Len(s) : s[k] \in Whitespace
    THEN <<>>
    ELSE LET first == CHOOSE k \in 1..Len(s) :
                          /\ s[k] \notin Whitespace
                          /\ \A j \in 1..(k - 1) : s[j] \in Whitespace
             last == CHOOSE k \in 1..Len(s) :
                         /\ s[k] \notin Whitespace
                         /\ \A j \in (k + 1)..Len(s) : s[j] \in Whitespace
         IN SubSeq(s, first, last)

\* sep occurs in s at position k
MatchAt(s, sep, k) ==
    /\ k + Len(sep) - 1 <= Len(s)
    /\ \A j \in 1..Len(sep) : s[k + j - 1] = sep[j]

\* s.find(sep, from), 1-based, 0 when there is none: the least position at
\* or after from where sep occurs
Find(s, sep, from) ==
    LET positions == from..(Len(s) - Len(sep) + 1)
    IN IF \A k \in positions : ~MatchAt(s, sep, k)
       THEN 0
       ELSE CHOOSE k \in positions :
                /\ MatchAt(s, sep, k)
                /\ \A j \in from..(k - 1) : ~MatchAt(s, sep, j)

\* s.split(sep): the pieces between the leftmost non-overlapping occurrences
RECURSIVE SplitFrom(_, _, _)
SplitFrom(s, sep, from) ==
    LET k == Find(s, sep, from)
    IN IF k = 0
       THEN <<SubSeq(s, from, Len(s))>>
       ELSE <<SubSeq(s, from, k - 1)>> \o SplitFrom(s, sep, k + Len(sep))

Split(s, sep) == SplitFrom(s, sep, 1)

\* sep.join(parts)
RECURSIVE Join(_, _)
Join(parts, sep) ==
    IF parts = <<>> THEN <<>>
    ELSE IF Len(parts) = 1 THEN parts[1]
    ELSE parts[1] \o sep \o Join(Tail(parts), sep)

\* ''.join(s.split()): s without its whitespace
RemoveWhitespace(s) == SelectSeq(s, LAMBDA c : c \notin Whitespace)

\* sub in s
Contains(s, sub) == \E k \in 1..(Len(s) - Len(sub) + 1) : MatchAt(s, sub, k)

\* [f(x) for x in xs]
MapSeq(xs, f(_)) == [k \in 1..Len(xs) |-> f(xs[k])]

(***************************************************************************)
(* audio_splitter.py                                                       *)
(***************************************************************************)
\* chunk_duration = chunk_duration_minutes * 60  (seconds)
chunk_duration(minutes) == minutes * 60

\* int(x / y) for a duration of x ticks and y seconds: truncation toward zero
\* of the exact quotient.
IntDiv(ticks, seconds) ==
    LET d == seconds * TicksPerSecond
        q == (IF ticks >= 0 THEN ticks ELSE -ticks) \div (IF d > 0 THEN d ELSE -d)
    IN IF (ticks >= 0) = (d > 0) THEN q ELSE -q

\* A variant of TotalChunks without the extra chunk.
TotalChunksWithoutExtra(duration, minutes) == IntDiv(duration, chunk_duration(minutes))

\* total_chunks = int(total_duration / chunk_duration) + 1
TotalChunks(duration, minutes) == IntDiv(duration, chunk_duration(minutes)) + 1

\* A variant of start_time that counts the chunks from 1.
start_time_from_one(i, minutes) == (i + 1) * chunk_duration(minutes)

\* start_time = i * chunk_duration
start_time(i, minutes) == i * chunk_duration(minutes)

\* duration = chunk_duration + overlap_seconds
duration(minutes, overlap) == chunk_duration(minutes) + overlap

InitSplit ==
    /\ total_duration \in 1..MaxDurationTicks
    /\ chunk_duration_minutes \in 1..MaxChunkMinutes
    /\ overlap_seconds \in 0..MaxOverlap
    /\ total_chunks = 0
    /\ chunk_i = 0
    /\ ffmpeg_cmds = <<>>
    /\ split_pc = "start"

\* The arguments outside the contract: a chunk duration of zero or less.
InitSplitNonPositive ==
    /\ total_duration \in 1..MaxDurationTicks
    /\ chunk_duration_minutes \in (-MaxChunkMinutes)..0
    /\ overlap_seconds \in 0..MaxOverlap
    /\ total_chunks = 0
    /\ chunk_i = 0
    /\ ffmpeg_cmds = <<>>
    /\ split_pc = "start"

\* Line 40 with chunk_duration = 0: the division raises ZeroDivisionError,
\* which nothing catches.
SplitAudioZeroDivision ==
    /\ split_pc = "start"
    /\ chunk_duration(chunk_duration_minutes) = 0
    /\ split_pc' = "zero_division"
    /\ UNCHANGED <<total_duration, chunk_duration_minutes, overlap_seconds,
                   total_chunks, chunk_i, ffmpeg_cmds>>

\* Lines 33-44: the duration is read and the number of chunks is computed.
SplitAudioPlan ==
    /\ split_pc = "start"
    /\ chunk_duration(chunk_duration_minutes) # 0
    /\ total_chunks' = TotalChunks(total_duration, chunk_duration_minutes)
    /\ chunk_i' = 0
    /\ split_pc' = "loop"
    /\ UNCHANGED <<total_duration, chunk_duration_minutes, overlap_seconds, ffmpeg_cmds>>

\* Lines 47-72: one iteration of the loop, ffmpeg returning 0.
SplitAudioChunk ==
    /\ split_pc = "loop"
    /\ chunk_i < total_chunks
    /\ ffmpeg_cmds' = Append(ffmpeg_cmds,
            [start_time |-> start_time(chunk_i, chunk_duration_minutes),
             duration |-> duration(chunk_duration_minutes, overlap_seconds)])
    /\ chunk_i' = chunk_i + 1
    /\ UNCHANGED <<total_duration, chunk_duration_minutes, overlap_seconds,
                   total_chunks, split_pc>>

\* Line 71: subprocess.run(check=True) raises when ffmpeg fails; the run ends.
SplitAudioFfmpegFails ==
    /\ split_pc = "loop"
    /\ chunk_i < total_chunks
    /\ split_pc' = "failed"
    /\ UNCHANGED <<total_duration, chunk_duration_minutes, overlap_seconds,
                   total_chunks, chunk_i, ffmpeg_cmds>>

\* The range is exhausted: split_audio returns.
SplitAudioReturn ==
    /\ split_pc = "loop"
    /\ chunk_i >= total_chunks
    /\ split_pc' = "done"
    /\ UNCHANGED <<total_duration, chunk_duration_minutes, overlap_seconds,
                   total_chunks, chunk_i, ffmpeg_cmds>>

(***************************************************************************)
(* translate_text.py: the batcher                                          *)
(***************************************************************************)
\* The section texts the batcher is run on; their estimates are 0, 1, 2, 4.
BatcherTexts ==
    { <<"a">>, <<"b", "c">>, <<"d", "e", "f", "g">>,
      <<"h", "i", "j", "k", "l", "m", "n", "o", "p">> }

\* len(text) // 2
estimate_token_count(text) == Len(text) \div 2

\* A variant of MustClose without the test that the current batch holds a section.
MustCloseNoBatchTest(current_tokens, section_tokens, token_limit, current_batch) ==
    current_tokens + section_tokens > token_limit

\* A variant of MustClose that also closes a batch the section would fill
\* exactly.
MustCloseAtLimit(current_tokens, section_tokens, token_limit, current_batch) ==
    current_tokens + section_tokens >= token_limit /\ current_batch # <<>>

\* Line 46: current_tokens + section_tokens > token_limit and current_batch
MustClose(current_tokens, section_tokens, token_limit, current_batch) ==
    current_tokens + section_tokens > token_limit /\ current_batch # <<>>

\* A variant of TokensAfterClose that restarts the count at 0.
TokensAfterCloseZero(section_tokens) == 0

\* Line 49: current_tokens = section_tokens
TokensAfterClose(section_tokens) == section_tokens

\* The loop of lines 42-52 from section k on, with the batches closed so far,
\* the current batch and its token count; then lines 55-58.
RECURSIVE CreateBatchesLoop(_, _, _, _, _, _)
CreateBatchesLoop(sections, token_limit, k, batches, current_batch, current_tokens) ==
    IF k > Len(sections)
    THEN IF current_batch # <<>> THEN Append(batches, current_batch) ELSE batches
    ELSE LET section == sections[k]
             section_tokens == estimate_token_count(section)
         IN IF MustClose(current_tokens, section_tokens, token_limit, current_batch)
            THEN CreateBatchesLoop(sections, token_limit, k + 1,
                                   Append(batches, current_batch),
                                   <<section>>, TokensAfterClose(section_tokens))
            ELSE CreateBatchesLoop(sections, token_limit, k + 1, batches,
                                   Append(current_batch, section),
                                   current_tokens + section_tokens)

create_batches(sections, token_limit) ==
    CreateBatchesLoop(sections, token_limit, 1, <<>>, <<>>, 0)

InitBatcher ==
    /\ cb_sections \in SeqsUpTo(BatcherTexts, MaxSections)
    /\ cb_token_limit \in 1..MaxTokenLimit
    /\ cb_result = <<>>
    /\ cb_pc = "start"

CreateBatches ==
    /\ cb_pc = "start"
    /\ cb_result' = create_batches(cb_sections, cb_token_limit)
    /\ cb_pc' = "done"
    /\ UNCHANGED <<cb_sections, cb_token_limit>>

(***************************************************************************)
(* translate_text.py, generate_embeddings.py: the section segmenter        *)
(***************************************************************************)
\* '---'
SectionDelimiter == <<"-", "-", "-">>

\* '\n---\n'
SectionLine == <<"\n", "-", "-", "-", "\n">>

\* A variant of split_into_sections that keeps the fragments untrimmed.
split_into_sections_unstripped(content) ==
    SelectSeq(Split(content, SectionDelimiter), LAMBDA x : Strip(x) # <<>>)

\* [section.strip() for section in content.split('---') if section.strip()]
split_into_sections(content) ==
    MapSeq(SelectSeq(Split(content, SectionDelimiter), LAMBDA x : Strip(x) # <<>>), Strip)

\* CONFIG["separator"]
PoiSeparator == <<"-", "-", "-">>

\* Line 85 and the loop of lines 88-97 of parse_poi_file: the content of the
\* POIs returned, one per section.
parse_poi_file_contents(content) ==
    LET sections == MapSeq(SelectSeq(Split(content, PoiSeparator),
                                     LAMBDA x : Strip(x) # <<>>), Strip)
    IN SelectSeq(sections, LAMBDA x : x # <<>>)

\* The characters the segmenter's inputs are made of.
SegmenterAlphabet == {"a", " ", "-", "\n"}

\* "Alpha---Beta---Gamma"
AlphaBetaGamma ==
    <<"A", "l", "p", "h", "a", "-", "-", "-", "B", "e", "t", "a",
      "-", "-", "-", "G", "a", "m", "m", "a">>

InitSegmenter ==
    /\ seg_content \in SeqsUpTo(SegmenterAlphabet, MaxContentLen) \cup {AlphaBetaGamma}
    /\ seg_sections = <<>>
    /\ poi_contents = <<>>
    /\ seg_pc = "start"

\* translate_text.main, line 148
SplitIntoSections ==
    /\ seg_pc \in {"start", "parsed"}
    /\ seg_sections' = split_into_sections(seg_content)
    /\ seg_pc' = IF seg_pc = "start" THEN "split" ELSE "both"
    /\ UNCHANGED <<seg_content, poi_contents>>

\* generate_embeddings.parse_poi_file
ParsePoiFile ==
    /\ seg_pc \in {"start", "split"}
    /\ poi_contents' = parse_poi_file_contents(seg_content)
    /\ seg_pc' = IF seg_pc = "start" THEN "parsed" ELSE "both"
    /\ UNCHANGED <<seg_content, seg_sections>>

(***************************************************************************)
(* combine_txt_files.py: hashtag segmentation                              *)
(***************************************************************************)
\* Line 117: the title length threshold
TitleLengthThreshold == 50

\* The banned phrases of line 133, one symbol per character: the simplified
\* and the traditional spelling.
BannedSimplified == <<"mei", "jing", "ting", "ting">>
BannedTraditional == <<"mei", "jing", "ting_trad", "ting_trad">>

\* The loop of lines 109-125 from index i on (1-based).
RECURSIVE PartsLoop(_, _)
PartsLoop(raw_parts, i) ==
    IF i > Len(raw_parts) THEN <<>>
    ELSE IF Strip(raw_parts[i]) = <<>> THEN PartsLoop(raw_parts, i + 1)
    ELSE IF i + 1 <= Len(raw_parts) /\ Len(Strip(raw_parts[i])) < TitleLengthThreshold
         THEN <<Strip(raw_parts[i]) \o <<":">> \o Strip(raw_parts[i + 1])>>
                  \o PartsLoop(raw_parts, i + 2)
         ELSE <<Strip(raw_parts[i])>> \o PartsLoop(raw_parts, i + 1)

\* Lines 104-125
hashtag_parts(content) == PartsLoop(Split(content, <<"#">>), 1)

\* Lines 128-134
processed_parts(parts) ==
    SelectSeq(MapSeq(parts, RemoveWhitespace),
              LAMBDA c : /\ c # <<>>
                         /\ ~Contains(c, BannedSimplified)
                         /\ ~Contains(c, BannedTraditional))

\* The pieces the inputs of process_combined_text are made of: a hashtag, a
\* letter, a blank, a fragment one character under the threshold, a fragment
\* at the threshold, and a banned phrase.
HashtagPieces ==
    { <<"#">>, <<"t">>, <<" ">>,
      [k \in 1..(TitleLengthThreshold - 1) |-> "y"],
      [k \in 1..TitleLengthThreshold |-> "x"],
      BannedSimplified }

InitHashtag ==
    /\ ht_content \in {Flatten(ps) : ps \in SeqsUpTo(HashtagPieces, MaxHashPieces)}
    /\ ht_parts = <<>>
    /\ ht_processed_parts = <<>>
    /\ ht_output = <<>>
    /\ ht_pc = "start"

\* process_combined_text, lines 99-141
ProcessCombinedText ==
    /\ ht_pc = "start"
    /\ ht_parts' = hashtag_parts(ht_content)
    /\ ht_processed_parts' = processed_parts(hashtag_parts(ht_content))
    /\ ht_output' = Join(processed_parts(hashtag_parts(ht_content)), SectionLine)
    /\ ht_pc' = "done"
    /\ UNCHANGED ht_content

(***************************************************************************)
(* translate_text.py: translate_batch                                      *)
(***************************************************************************)
\* Line 66: "[SECTION_BREAK]"
section_separator ==
    <<"[", "S", "E", "C", "T", "I", "O", "N", "_", "B", "R", "E", "A", "K", "]">>

\* Line 94: "Translation:"
TranslationLabel ==
    <<"T", "r", "a", "n", "s", "l", "a", "t", "i", "o", "n", ":">>

\* Line 121: "[Translation Error]"
TranslationError ==
    <<"[", "T", "r", "a", "n", "s", "l", "a", "t", "i", "o", "n", " ",
      "E", "r", "r", "o", "r", "]">>

\* Line 69: f"{section_separator}\n".join(batch)
batch_text(batch) == Join(batch, section_separator \o <<"\n">>)

\* s.startswith(prefix)
StartsWith(s, prefix) == MatchAt(s, prefix, 1)

\* Lines 91-95: response.text.strip(), without a leading "Translation:"
translation(text) ==
    LET stripped == Strip(text)
    IN IF StartsWith(stripped, TranslationLabel)
       THEN Strip(SubSeq(stripped, Len(TranslationLabel) + 1, Len(stripped)))
       ELSE stripped

\* A variant of CheckSectionCount: the padding and truncation that lines 110-115
\* hold as comments.
PadOrTruncate(translated_sections, batch) ==
    IF Len(translated_sections) < Len(batch)
    THEN translated_sections
            \o [k \in 1..(Len(batch) - Len(translated_sections)) |-> TranslationError]
    ELSE SubSeq(translated_sections, 1, Len(batch))

\* Lines 108-115: a count that differs from len(batch) is printed as a
\* warning; the list is left as it is.
CheckSectionCount(translated_sections, batch) == translated_sections

\* A variant of ErrorPerSection with a single marker for the whole batch.
ErrorOnce(batch) == <<TranslationError>>

\* Line 121: ["[Translation Error]"] * len(batch)
ErrorPerSection(batch) == [k \in 1..Len(batch) |-> TranslationError]

\* A variant of ExceptHandler that lets the exception out of translate_batch.
ExceptHandlerReraises(batch) == [raised |-> TRUE, value |-> <<>>]

\* Lines 118-121: any Exception of the try block is caught and the error
\* list is returned.
ExceptHandler(batch) == [raised |-> FALSE, value |-> ErrorPerSection(batch)]

\* The outcome of model.generate_content(prompt) and response.text: an
\* exception, or the text of the reply.
ServiceRaises == [raised |-> TRUE, text |-> <<>>]
ServiceReplies(text) == [raised |-> FALSE, text |-> text]

\* translate_batch(model, batch), lines 60-121, for an outcome of the service
\* call: how the function ends and the value it returns.
translate_batch(batch, outcome) ==
    IF outcome.raised
    THEN ExceptHandler(batch)
    ELSE [raised |-> FALSE,
          value |-> CheckSectionCount(
                        MapSeq(Split(translation(outcome.text), section_separator), Strip),
                        batch)]

\* The pieces the replies of the service are made of.
ResponsePieces ==
    { <<"x">>, <<" ">>, <<"\n">>, section_separator, TranslationLabel }

InitTranslateBatch ==
    /\ tb_batch \in SeqsUpTo({<<"a">>, <<"b">>}, MaxBatchLen) \ {<<>>}
    /\ tb_outcome \in {ServiceRaises}
          \cup {ServiceReplies(Flatten(ps)) : ps \in SeqsUpTo(ResponsePieces, MaxResponsePieces)}
    /\ tb_return = [raised |-> FALSE, value |-> <<>>]
    /\ tb_pc = "start"

TranslateBatch ==
    /\ tb_pc = "start"
    /\ tb_return' = translate_batch(tb_batch, tb_outcome)
    /\ tb_pc' = "done"
    /\ UNCHANGED <<tb_batch, tb_outcome>>

IdleTranslateBatch ==
    /\ tb_batch = <<>>
    /\ tb_outcome = ServiceRaises
    /\ tb_return = [raised |-> FALSE, value |-> <<>>]
    /\ tb_pc = "idle"

(***************************************************************************)
(* translate_text.py: main; combine_batches.py                             *)
(***************************************************************************)
\* Line 33: token_limit: int = 5000
DefaultTokenLimit == 5000

\* Line 18: output_base = "nyc_batch"
output_base == <<"n", "y", "c", "_", "b", "a", "t", "c", "h">>

DigitChars == <<"0", "1", "2", "3", "4", "5", "6", "7", "8", "9">>

\* str(n) for n >= 0
RECURSIVE Decimal(_)
Decimal(n) ==
    IF n < 10 THEN <<DigitChars[n + 1]>>
    ELSE Decimal(n \div 10) \o <<DigitChars[(n % 10) + 1]>>

\* f"{n:03d}"
Format03d(n) ==
    LET d == Decimal(n)
    IN IF Len(d) >= 3 THEN d ELSE [k \in 1..(3 - Len(d)) |-> "0"] \o d

\* int(digits)
RECURSIVE ParseInt(_)
ParseInt(digits) ==
    IF digits = <<>> THEN 0
    ELSE 10 * ParseInt(SubSeq(digits, 1, Len(digits) - 1))
           + (CHOOSE d \in 0..9 : DigitChars[d + 1] = digits[Len(digits)])

IsDigits(s) == \A k \in 1..Len(s) : \E d \in 1..10 : DigitChars[d] = s[k]

\* Line 163: f"{output_base}_{batch_num:03d}.txt", in output_dir
batch_output_file(batch_num) ==
    output_base \o <<"_">> \o Format03d(batch_num) \o <<".", "t", "x", "t">>

BatchTag == <<"_", "b", "a", "t", "c", "h", "_">>
TxtSuffix == <<".", "t", "x", "t">>

\* combine_batches.py line 9 and 25: the name matches "*_batch_*.txt"
MatchesBatchPattern(filename) ==
    /\ Len(filename) >= Len(TxtSuffix)
    /\ MatchAt(filename, TxtSuffix, Len(filename) - Len(TxtSuffix) + 1)
    /\ \E p \in 1..Len(filename) :
          /\ MatchAt(filename, BatchTag, p)
          /\ p + Len(BatchTag) <= Len(filename) - Len(TxtSuffix) + 1

\* combine_batches.get_batch_number: re.search(r'_batch_(\d+)\.txt$'), else 0
get_batch_number(filename) ==
    LET last == Len(filename) - Len(TxtSuffix)
        starts == {p \in 1..Len(filename) :
                      /\ MatchAt(filename, BatchTag, p)
                      /\ p + Len(BatchTag) <= last
                      /\ IsDigits(SubSeq(filename, p + Len(BatchTag), last))
                      /\ MatchAt(filename, TxtSuffix, last + 1)}
    IN IF starts = {} THEN 0
       ELSE ParseInt(SubSeq(filename, Min(starts) + Len(BatchTag), last))

\* x put into a list sorted by batch number, after the entries that do not
\* come after it: list.sort is stable.
RECURSIVE InsertByBatchNumber(_, _)
InsertByBatchNumber(sorted, x) ==
    IF sorted = <<>> THEN <<x>>
    ELSE IF get_batch_number(sorted[Len(sorted)]) <= get_batch_number(x)
         THEN Append(sorted, x)
         ELSE Append(InsertByBatchNumber(SubSeq(sorted, 1, Len(sorted) - 1), x),
                     sorted[Len(sorted)])

RECURSIVE SortedByBatchNumber(_)
SortedByBatchNumber(batch_files) ==
    IF batch_files = <<>> THEN <<>>
    ELSE InsertByBatchNumber(
             SortedByBatchNumber(SubSeq(batch_files, 1, Len(batch_files) - 1)),
             batch_files[Len(batch_files)])

\* A variant of sort_batch_files that leaves the names in glob's order.
InGlobOrder(batch_files) == batch_files

\* combine_batches.py line 32: batch_files.sort(key=get_batch_number)
sort_batch_files(batch_files) == SortedByBatchNumber(batch_files)

\* combine_batches.py lines 49-50: the sections of one batch file
file_sections(content) ==
    SelectSeq(Split(content, SectionLine), LAMBDA x : Strip(x) # <<>>)

\* The orders in which glob.glob may list a set of names.
GlobOrders(names) ==
    {f \in [1..Cardinality(names) -> names] :
        \A j, k \in 1..Cardinality(names) : j # k => f[j] # f[k]}

\* A section whose estimate, token_limit + 1, is over the token limit.
OversizedSection == [k \in 1..(2 * DefaultTokenLimit + 2) |-> "z"]

\* The section sequences main is run on: short sections, with at most one
\* section over the token limit, which closes the batch before it and is
\* alone in its own.
MainSections ==
    {ss \in SeqsUpTo({<<"a">>, OversizedSection}, MaxMainSections) :
        Cardinality({k \in 1..Len(ss) : ss[k] = OversizedSection}) <= 1}

\* The replies of the service in a run of main: one unit, two units, and a
\* unit followed by a separator.
MainReplies ==
    { <<"x">>,
      <<"x">> \o section_separator \o <<"\n", "y">>,
      <<"x">> \o section_separator }

InitMain ==
    /\ api_key \in BOOLEAN
    /\ input_text \in {Join(ss, SectionLine) : ss \in MainSections}
    /\ main_batches = <<>>
    /\ batch_i = 0
    /\ translated_batch = <<>>
    /\ sections_completed = 0
    /\ service_log = <<>>
    /\ results = <<>>
    /\ sleeps = 0
    /\ files = <<>>
    /\ main_pc = "start"

InitCombine ==
    /\ combined_content = <<>>
    /\ combined_file = <<>>
    /\ combine_pc = "start"

\* Lines 125-128: no API key, main returns.
MainNoApiKey ==
    /\ main_pc = "start"
    /\ ~api_key
    /\ main_pc' = "no_api_key"
    /\ UNCHANGED <<api_key, input_text, main_batches, batch_i, translated_batch,
                   sections_completed, service_log, results, sleeps, files>>

\* Lines 131-159: the text is read, split into sections and batched.
MainStart ==
    /\ main_pc = "start"
    /\ api_key
    /\ main_batches' = create_batches(split_into_sections(input_text), DefaultTokenLimit)
    /\ batch_i' = 0
    /\ main_pc' = IF main_batches' = <<>> THEN "done" ELSE "submit"
    /\ UNCHANGED <<api_key, input_text, translated_batch, sections_completed,
                   service_log, results, sleeps, files>>

\* Lines 161-171 and 69-90: translate_batch sends the batch to the service.
MainSubmit ==
    /\ main_pc = "submit"
    /\ service_log' = Append(service_log, batch_text(main_batches[batch_i + 1]))
    /\ main_pc' = "awaiting"
    /\ UNCHANGED <<api_key, input_text, main_batches, batch_i, translated_batch,
                   sections_completed, results, sleeps, files>>

\* The rest of translate_batch for an outcome of the call; an exception that
\* leaves translate_batch ends main.
MainReturn(outcome) ==
    LET ret == translate_batch(main_batches[batch_i + 1], outcome)
    IN /\ IF ret.raised
          THEN /\ main_pc' = "crashed"
               /\ UNCHANGED <<translated_batch, results>>
          ELSE /\ translated_batch' = ret.value
               /\ results' = Append(results, ret.value)
               /\ main_pc' = "write"
       /\ UNCHANGED <<api_key, input_text, main_batches, batch_i, sections_completed,
                      service_log, sleeps, files>>

\* Lines 90-117: the service replies.
MainServiceReplies ==
    /\ main_pc = "awaiting"
    /\ \E text \in MainReplies : MainReturn(ServiceReplies(text))

\* Lines 90, 118-121: the service call raises.
MainServiceRaises ==
    /\ main_pc = "awaiting"
    /\ MainReturn(ServiceRaises)

\* Lines 173-182: the batch file is written; the loop ends after the last one.
MainWrite ==
    /\ main_pc = "write"
    /\ files' = [name \in DOMAIN files \cup {batch_output_file(batch_i + 1)} |->
                    IF name = batch_output_file(batch_i + 1)
                    THEN Join(translated_batch, SectionLine)
                    ELSE files[name]]
    /\ sections_completed' = sections_completed + Len(translated_batch)
    /\ main_pc' = IF batch_i < Len(main_batches) - 1 THEN "sleep" ELSE "done"
    /\ UNCHANGED <<api_key, input_text, main_batches, batch_i, translated_batch,
                   service_log, results, sleeps>>

\* Lines 182-184 and 161: time.sleep(10), then the next batch.
MainSleep ==
    /\ main_pc = "sleep"
    /\ sleeps' = sleeps + 1
    /\ batch_i' = batch_i + 1
    /\ main_pc' = "submit"
    /\ UNCHANGED <<api_key, input_text, main_batches, translated_batch,
                   sections_completed, service_log, results, files>>

\* combine_batches, lines 22-62, run once main has ended.
CombineBatches ==
    /\ main_pc \in {"done", "no_api_key"}
    /\ combine_pc = "start"
    /\ \E listed \in GlobOrders({name \in DOMAIN files : MatchesBatchPattern(name)}) :
          IF listed = <<>>
          THEN /\ combine_pc' = "no_files"
               /\ UNCHANGED <<combined_content, combined_file>>
          ELSE LET batch_files == sort_batch_files(listed)
                   content == Flatten([k \in 1..Len(batch_files) |->
                                          file_sections(files[batch_files[k]])])
               IN /\ combined_content' = content
                  /\ combined_file' = Join(content, SectionLine)
                  /\ combine_pc' = "done"

IdleMain ==
    /\ api_key = FALSE
    /\ input_text = <<>>
    /\ main_batches = <<>>
    /\ batch_i = 0
    /\ translated_batch = <<>>
    /\ sections_completed = 0
    /\ service_log = <<>>
    /\ results = <<>>
    /\ sleeps = 0
    /\ files = <<>>
    /\ main_pc = "idle"

IdleCombine ==
    /\ combined_content = <<>>
    /\ combined_file = <<>>
    /\ combine_pc = "idle"

(***************************************************************************)
(* generate_embeddings.py: the POI parser and the embedding loop           *)
(*                                                                         *)
(* An Optional value is a record with the field some: None has some FALSE. *)
(* A coordinate is an exact decimal, held as a whole number of units of    *)
(* 10^-CoordDigits.                                                        *)
(***************************************************************************)
RECURSIVE Pow10(_)
Pow10(n) == IF n <= 0 THEN 1 ELSE 10 * Pow10(n - 1)

\* None and a float, as the value of latitude, longitude.
NoFloat == [some |-> FALSE, v |-> 0]
SomeFloat(x) == [some |-> TRUE, v |-> x]

\* None and a {"latitude": ..., "longitude": ...} dict, which is never empty.
NoLocation == [some |-> FALSE, latitude |-> NoFloat, longitude |-> NoFloat]
LocationDict(lat, lon) == [some |-> TRUE, latitude |-> lat, longitude |-> lon]

\* The truth value of an Optional[float]: None and 0.0 are false.
TruthyFloat(x) == x.some /\ x.v # 0

\* None and a list, as the value of embedding.
NoList == [some |-> FALSE, v |-> <<>>]
SomeList(xs) == [some |-> TRUE, v |-> xs]

\* The truth value of an Optional[List]: None and [] are false.
TruthyList(xs) == xs.some /\ xs.v # <<>>

\* Lines 48-53: PointOfInterest.__init__, with the value uuid4 gives.
PointOfInterest(new_id, content, location, embedding) ==
    [id |-> new_id,
     content |-> content,
     latitude |-> IF location.some THEN location.latitude ELSE NoFloat,
     longitude |-> IF location.some THEN location.longitude ELSE NoFloat,
     embedding |-> embedding]

\* "latitude: " and ", longitude: " of the pattern of line 66.
LatitudeLabel == <<"l", "a", "t", "i", "t", "u", "d", "e", ":", " ">>
LongitudeLabel ==
    <<",", " ", "l", "o", "n", "g", "i", "t", "u", "d", "e", ":", " ">>

\* The class [-\d.] of the pattern.
NumberChars == {"-", "."} \cup {DigitChars[d] : d \in 1..10}

\* The end of the longest run of [-\d.] that starts at k; k - 1 if none.
RunEnd(s, k) ==
    CHOOSE e \in (k - 1)..Len(s) :
        /\ \A j \in k..e : s[j] \in NumberChars
        /\ e < Len(s) => s[e + 1] \notin NumberChars

\* The pattern of line 66 matches at k: both groups are greedy and are
\* followed by a character outside the class, or by the end of the text.
LocationMatchAt(s, k) ==
    LET a == k + Len(LatitudeLabel)
        e1 == RunEnd(s, a)
        b == e1 + 1 + Len(LongitudeLabel)
    IN /\ MatchAt(s, LatitudeLabel, k)
       /\ e1 >= a
       /\ MatchAt(s, LongitudeLabel, e1 + 1)
       /\ RunEnd(s, b) >= b

\* The number of fractional digits a coordinate keeps.
CoordDigits == 1

\* float(s) does not raise ValueError, for s made of the characters [-\d.]:
\* an optional sign, then digits with at most one point and at least one digit.
IsFloatText(s) ==
    LET body == IF s # <<>> /\ s[1] = "-" THEN Tail(s) ELSE s
    IN /\ \A k \in 1..Len(body) : body[k] # "-"
       /\ Cardinality({k \in 1..Len(body) : body[k] = "."}) <= 1
       /\ \E k \in 1..Len(body) : body[k] # "."

\* float(s), for a text with at most CoordDigits fractional digits.
FloatOf(s) ==
    LET negative == s[1] = "-"
        body == IF negative THEN Tail(s) ELSE s
        point == IF \E k \in 1..Len(body) : body[k] = "."
                 THEN CHOOSE k \in 1..Len(body) : body[k] = "."
                 ELSE Len(body) + 1
        whole == SubSeq(body, 1, point - 1)
        fraction == SubSeq(body, point + 1, Len(body))
        padded == fraction \o [k \in 1..(CoordDigits - Len(fraction)) |-> "0"]
        magnitude == ParseInt(whole) * Pow10(CoordDigits) + ParseInt(padded)
    IN IF negative THEN -magnitude ELSE magnitude

\* Lines 64-76: re.search takes the leftmost match; a group float() rejects
\* gives None.
extract_location(text) ==
    IF \E k \in 1..Len(text) : LocationMatchAt(text, k)
    THEN LET k == CHOOSE i \in 1..Len(text) :
                    /\ LocationMatchAt(text, i)
                    /\ \A j \in 1..(i - 1) : ~LocationMatchAt(text, j)
             a == k + Len(LatitudeLabel)
             e1 == RunEnd(text, a)
             b == e1 + 1 + Len(LongitudeLabel)
             group1 == SubSeq(text, a, e1)
             group2 == SubSeq(text, b, RunEnd(text, b))
         IN IF IsFloatText(group1) /\ IsFloatText(group2)
            THEN LocationDict(SomeFloat(FloatOf(group1)), SomeFloat(FloatOf(group2)))
            ELSE NoLocation
    ELSE NoLocation

\* Lines 85-96: the POIs of a file, POI k taking the k-th fresh identifier.
parse_poi_file(content, first_id) ==
    LET sections == parse_poi_file_contents(content)
    IN [k \in 1..Len(sections) |->
           PointOfInterest(first_id + k - 1, sections[k],
                           extract_location(sections[k]), NoList)]

\* The texts of latitude and of longitude in the POI sections of the model.
LatitudeTexts == { <<"0">>, <<"4", "0", ".", "7">>, <<"-">> }
LongitudeTexts == { <<"0", ".", "0">>, <<"-", "7", "4">> }

\* The POI sections: one without coordinates, the others with.
PoiTexts ==
    { <<"p">> } \cup
    { <<"q", " ">> \o LatitudeLabel \o lat \o LongitudeLabel \o lon :
        lat \in LatitudeTexts, lon \in LongitudeTexts }

\* The vectors the embedding service replies with, in units of 10^-FineDigits.
EmbeddingReplies == { <<125, -5>>, <<0, 1000>> }

\* Line 134: {"latitude": ..., "longitude": ...} if poi.latitude and
\* poi.longitude else None
rebuilt_location(poi) ==
    IF TruthyFloat(poi.latitude) /\ TruthyFloat(poi.longitude)
    THEN LocationDict(poi.latitude, poi.longitude)
    ELSE NoLocation

InitEmbed ==
    /\ ge_content \in {Join(ss, SectionLine) : ss \in SeqsUpTo(PoiTexts, MaxPois)}
    /\ ge_pois = <<>>
    /\ ge_i = 0
    /\ ge_calls = <<>>
    /\ ge_processed = <<>>
    /\ ge_sleeps = 0
    /\ ge_next_id = 1
    /\ ge_pc = "start"

\* main, lines 228-241: the file is parsed; without POIs main returns.
ParsePoiFiles ==
    /\ ge_pc = "start"
    /\ ge_pois' = parse_poi_file(ge_content, ge_next_id)
    /\ ge_next_id' = ge_next_id + Len(ge_pois')
    /\ ge_pc' = IF ge_pois' = <<>> THEN "no_pois" ELSE "loop"
    /\ UNCHANGED <<ge_content, ge_i, ge_calls, ge_processed, ge_sleeps>>

\* Lines 123-129 and 108-112: generate_embedding sends the content of POI i.
EmbedSubmit ==
    /\ ge_pc = "loop"
    /\ ge_i < Len(ge_pois)
    /\ ge_calls' = Append(ge_calls, ge_pois[ge_i + 1].content)
    /\ ge_pc' = "awaiting"
    /\ UNCHANGED <<ge_content, ge_pois, ge_i, ge_processed, ge_sleeps, ge_next_id>>

\* Lines 132-137: the POI is rebuilt with the value of generate_embedding.
EmbedReturn(embedding) ==
    LET poi == ge_pois[ge_i + 1]
    IN /\ ge_processed' = Append(ge_processed,
              PointOfInterest(ge_next_id, poi.content, rebuilt_location(poi),
                              SomeList(embedding)))
       /\ ge_next_id' = ge_next_id + 1
       /\ ge_pc' = "sleep"
       /\ UNCHANGED <<ge_content, ge_pois, ge_i, ge_calls, ge_sleeps>>

\* Lines 108-113: the service replies with a vector.
EmbedServiceReplies ==
    /\ ge_pc = "awaiting"
    /\ \E embedding \in EmbeddingReplies : EmbedReturn(embedding)

\* Lines 114-116: the call raises and generate_embedding returns [].
EmbedServiceRaises ==
    /\ ge_pc = "awaiting"
    /\ EmbedReturn(<<>>)

\* A variant of EmbedSleep that goes on to the next POI without the delay.
EmbedWithoutSleep ==
    /\ ge_pc = "sleep"
    /\ ge_i' = ge_i + 1
    /\ ge_pc' = "loop"
    /\ UNCHANGED <<ge_content, ge_pois, ge_calls, ge_processed, ge_sleeps, ge_next_id>>

\* Line 140: time.sleep(CONFIG["delay"]), then the next POI.
EmbedSleep ==
    /\ ge_pc = "sleep"
    /\ ge_sleeps' = ge_sleeps + 1
    /\ ge_i' = ge_i + 1
    /\ ge_pc' = "loop"
    /\ UNCHANGED <<ge_content, ge_pois, ge_calls, ge_processed, ge_next_id>>

\* Line 150: the loop has ended, processed_pois is returned.
EmbedDone ==
    /\ ge_pc = "loop"
    /\ ge_i >= Len(ge_pois)
    /\ ge_pc' = "done"
    /\ UNCHANGED <<ge_content, ge_pois, ge_i, ge_calls, ge_processed, ge_sleeps,
                   ge_next_id>>

IdleEmbed ==
    /\ ge_content = <<>>
    /\ ge_pois = <<>>
    /\ ge_i = 0
    /\ ge_calls = <<>>
    /\ ge_processed = <<>>
    /\ ge_sleeps = 0
    /\ ge_next_id = 1
    /\ ge_pc = "idle"

(***************************************************************************)
(* generate_embeddings.py: optimize_embedding and save_embeddings_to_json  *)
(*                                                                         *)
(* A component of an embedding is an exact decimal, held as a whole number *)
(* of units of 10^-FineDigits.                                             *)
(***************************************************************************)
FineDigits == MaxDecimals + 1

\* The size, in units, of one step of the last decimal place kept.
Step(decimals) == Pow10(FineDigits - decimals)

\* A variant of round that drops the digits after the last place kept.
round_toward_zero(x, decimals) ==
    LET magnitude == IF x >= 0 THEN x ELSE -x
        kept == (magnitude \div Step(decimals)) * Step(decimals)
    IN IF x >= 0 THEN kept ELSE -kept

\* Python's round(x, decimals): the nearest multiple of 10^-decimals, a tie
\* going to the even one.
round(x, decimals) ==
    LET step == Step(decimals)
        magnitude == IF x >= 0 THEN x ELSE -x
        q == magnitude \div step
        rest == magnitude % step
        nearest == IF 2 * rest < step THEN q
                   ELSE IF 2 * rest > step THEN q + 1
                   ELSE IF q % 2 = 0 THEN q ELSE q + 1
    IN IF x >= 0 THEN nearest * step ELSE -(nearest * step)

\* Lines 152-154: [round(x, decimals) for x in embedding]
optimize_embedding(embedding, decimals) ==
    [k \in 1..Len(embedding) |-> round(embedding[k], decimals)]

\* Line 177: json.dumps keeps the list and the keys and values of its dicts.
json_dumps(data) == [gzip |-> FALSE, json |-> data]

\* Lines 156-158: gzip.compress of the encoded JSON text.
compress_json(data) == [gzip |-> TRUE, json |-> data.json]

\* A variant of optimized_poi that writes the location of every POI, None
\* included.
optimized_poi_with_location(poi, decimals) ==
    [i |-> poi.id,
     c |-> poi.content,
     e |-> IF TruthyList(poi.embedding)
           THEN SomeList(optimize_embedding(poi.embedding.v, decimals))
           ELSE NoList,
     l |-> <<poi.latitude, poi.longitude>>]

\* Lines 166-173: the dict of one POI.
optimized_poi(poi, decimals) ==
    LET e == IF TruthyList(poi.embedding)
             THEN SomeList(optimize_embedding(poi.embedding.v, decimals))
             ELSE NoList
    IN IF poi.latitude.some /\ poi.longitude.some
       THEN [i |-> poi.id, c |-> poi.content, e |-> e,
             l |-> <<poi.latitude, poi.longitude>>]
       ELSE [i |-> poi.id, c |-> poi.content, e |-> e]

\* Lines 164-174: pois_data
pois_data(pois, decimals) == [k \in 1..Len(pois) |-> optimized_poi(pois[k], decimals)]

\* The components of the vectors optimize_embedding is run on: 4, 5, 6 and
\* 15 units of each decimal place, -5 units of each decimal place, and 0.
EmbeddingValues ==
    {0} \cup {m * Pow10(p) : m \in {4, 5, 6, 15, -5}, p \in 0..MaxDecimals}

\* The precisions: one place left of the point, 0 to MaxDecimals places, and
\* as many places as a component has.
Precisions == (-1)..FineDigits

\* The file before anything is written.
NoFile == [name |-> "", holds |-> [gzip |-> FALSE, json |-> <<>>]]

InitOptimize ==
    /\ oe_embedding \in SeqsUpTo(EmbeddingValues, MaxVectorLen)
    /\ oe_decimals \in Precisions
    /\ oe_once = <<>>
    /\ oe_twice = <<>>
    /\ oe_pc = "start"

\* optimize_embedding(embedding, decimals)
OptimizeEmbedding ==
    /\ oe_pc = "start"
    /\ oe_once' = optimize_embedding(oe_embedding, oe_decimals)
    /\ oe_pc' = "once"
    /\ UNCHANGED <<oe_embedding, oe_decimals, oe_twice>>

\* optimize_embedding applied to its own value, at the same precision
OptimizeEmbeddingAgain ==
    /\ oe_pc = "once"
    /\ oe_twice' = optimize_embedding(oe_once, oe_decimals)
    /\ oe_pc' = "twice"
    /\ UNCHANGED <<oe_embedding, oe_decimals, oe_once>>

\* The embeddings of the POIs that are saved: the value of a failed call,
\* and two vectors.
SavedEmbeddings == { <<>>, <<125, -5>>, <<15>> }

\* The locations of the POIs that are saved, in units of 10^-CoordDigits.
SavedLocations ==
    { NoLocation,
      LocationDict(SomeFloat(0), SomeFloat(-740)),
      LocationDict(SomeFloat(407), SomeFloat(0)) }

\* The lists of POIs that are saved: POI k has the k-th identifier of a list
\* of distinct identifiers.
SavedPois ==
    UNION { { [k \in 1..n |-> PointOfInterest(ids[k], <<"p">>, locs[k],
                                              SomeList(embs[k]))] :
                 locs \in [1..n -> SavedLocations],
                 embs \in [1..n -> SavedEmbeddings],
                 ids \in {[k \in 1..n |-> k], [k \in 1..n |-> 2 * n - k]} } :
            n \in 0..MaxSavedPois }

InitSave ==
    /\ sv_pois \in SavedPois
    /\ sv_decimals \in Precisions
    /\ sv_compress \in BOOLEAN
    /\ sv_pois_data = <<>>
    /\ sv_file = NoFile
    /\ sv_return = FALSE
    /\ sv_pc = "start"

\* Lines 162-194: the records are built and the file is written.
SaveEmbeddingsToJson ==
    /\ sv_pc = "start"
    /\ sv_pois_data' = pois_data(sv_pois, sv_decimals)
    /\ sv_file' = IF sv_compress
                  THEN [name |-> "output_path.gz",
                        holds |-> compress_json(json_dumps(sv_pois_data'))]
                  ELSE [name |-> "output_path",
                        holds |-> json_dumps(sv_pois_data')]
    /\ sv_return' = TRUE
    /\ sv_pc' = "done"
    /\ UNCHANGED <<sv_pois, sv_decimals, sv_compress>>

\* Lines 183, 189 and 195-197: open or write raises, False is returned.
SaveEmbeddingsFails ==
    /\ sv_pc = "start"
    /\ sv_pois_data' = pois_data(sv_pois, sv_decimals)
    /\ sv_return' = FALSE
    /\ sv_pc' = "failed"
    /\ UNCHANGED <<sv_pois, sv_decimals, sv_compress, sv_file>>

IdleOptimize ==
    /\ oe_embedding = <<>>
    /\ oe_decimals = 0
    /\ oe_once = <<>>
    /\ oe_twice = <<>>
    /\ oe_pc = "idle"

IdleSave ==
    /\ sv_pois = <<>>
    /\ sv_decimals = 0
    /\ sv_compress = FALSE
    /\ sv_pois_data = <<>>
    /\ sv_file = NoFile
    /\ sv_return = FALSE
    /\ sv_pc = "idle"

IdlePoi == IdleEmbed /\ IdleOptimize /\ IdleSave

(***************************************************************************)
(* Components at rest, for the specifications that do not run them.        *)
(***************************************************************************)
IdleSegmenter ==
    /\ seg_content = <<>>
    /\ seg_sections = <<>>
    /\ poi_contents = <<>>
    /\ seg_pc = "idle"

IdleHashtag ==
    /\ ht_content = <<>>
    /\ ht_parts = <<>>
    /\ ht_processed_parts = <<>>
    /\ ht_output = <<>>
    /\ ht_pc = "idle"
IdleSplit ==
    /\ total_duration = 0
    /\ chunk_duration_minutes = 0
    /\ overlap_seconds = 0
    /\ total_chunks = 0
    /\ chunk_i = 0
    /\ ffmpeg_cmds = <<>>
    /\ split_pc = "idle"

IdleBatcher ==
    /\ cb_sections = <<>>
    /\ cb_token_limit = 0
    /\ cb_result = <<>>
    /\ cb_pc = "idle"

(***************************************************************************)
(* Specifications.                                                         *)
(***************************************************************************)
varsNotSplit == <<varsBatcher, varsSegmenter, varsHashtag, varsTranslateBatch,
                  varsMain, varsCombine, varsPoi>>
varsNotBatcher == <<varsSplit, varsSegmenter, varsHashtag, varsTranslateBatch,
                    varsMain, varsCombine, varsPoi>>
varsNotSegmenter == <<varsSplit, varsBatcher, varsHashtag, varsTranslateBatch,
                      varsMain, varsCombine, varsPoi>>
varsNotHashtag == <<varsSplit, varsBatcher, varsSegmenter, varsTranslateBatch,
                    varsMain, varsCombine, varsPoi>>
varsNotTranslateBatch == <<varsSplit, varsBatcher, varsSegmenter, varsHashtag,
                           varsMain, varsCombine, varsPoi>>
varsNotTranslate == <<varsSplit, varsBatcher, varsSegmenter, varsHashtag,
                      varsTranslateBatch, varsPoi>>

\* audio_splitter.py run on its own
InitPlanner ==
    /\ InitSplit /\ IdleBatcher /\ IdleSegmenter /\ IdleHashtag
    /\ IdleTranslateBatch /\ IdleMain /\ IdleCombine /\ IdlePoi

NextPlanner ==
    \/ SplitAudioPlan /\ UNCHANGED varsNotSplit
    \/ SplitAudioChunk /\ UNCHANGED varsNotSplit
    \/ SplitAudioFfmpegFails /\ UNCHANGED varsNotSplit
    \/ SplitAudioReturn /\ UNCHANGED varsNotSplit

SpecPlanner == InitPlanner /\ [][NextPlanner]_vars

\* audio_splitter.py called with a chunk duration of zero or less
InitPlannerNonPositive ==
    /\ InitSplitNonPositive /\ IdleBatcher /\ IdleSegmenter /\ IdleHashtag
    /\ IdleTranslateBatch /\ IdleMain /\ IdleCombine /\ IdlePoi

NextPlannerNonPositive ==
    \/ SplitAudioZeroDivision /\ UNCHANGED varsNotSplit
    \/ SplitAudioPlan /\ UNCHANGED varsNotSplit
    \/ SplitAudioChunk /\ UNCHANGED varsNotSplit
    \/ SplitAudioFfmpegFails /\ UNCHANGED varsNotSplit
    \/ SplitAudioReturn /\ UNCHANGED varsNotSplit

SpecPlannerNonPositive == InitPlannerNonPositive /\ [][NextPlannerNonPositive]_vars

\* create_batches applied to a section sequence and a token limit
InitCreateBatches ==
    /\ IdleSplit /\ InitBatcher /\ IdleSegmenter /\ IdleHashtag
    /\ IdleTranslateBatch /\ IdleMain /\ IdleCombine /\ IdlePoi

NextCreateBatches == CreateBatches /\ UNCHANGED varsNotBatcher

SpecCreateBatches == InitCreateBatches /\ [][NextCreateBatches]_vars

\* split_into_sections and parse_poi_file applied to a text
InitSections ==
    /\ IdleSplit /\ IdleBatcher /\ InitSegmenter /\ IdleHashtag
    /\ IdleTranslateBatch /\ IdleMain /\ IdleCombine /\ IdlePoi

NextSections ==
    \/ SplitIntoSections /\ UNCHANGED varsNotSegmenter
    \/ ParsePoiFile /\ UNCHANGED varsNotSegmenter

SpecSections == InitSections /\ [][NextSections]_vars

\* process_combined_text applied to a text
InitProcessText ==
    /\ IdleSplit /\ IdleBatcher /\ IdleSegmenter /\ InitHashtag
    /\ IdleTranslateBatch /\ IdleMain /\ IdleCombine /\ IdlePoi

NextProcessText == ProcessCombinedText /\ UNCHANGED varsNotHashtag

SpecProcessText == InitProcessText /\ [][NextProcessText]_vars

\* translate_batch applied to a batch and an outcome of the service call
InitTranslateBatchOnly ==
    /\ IdleSplit /\ IdleBatcher /\ IdleSegmenter /\ IdleHashtag
    /\ InitTranslateBatch /\ IdleMain /\ IdleCombine /\ IdlePoi

NextTranslateBatch == TranslateBatch /\ UNCHANGED varsNotTranslateBatch

SpecTranslateBatch == InitTranslateBatchOnly /\ [][NextTranslateBatch]_vars

\* translate_text.py run on an input file, then combine_batches.py
InitTranslate ==
    /\ IdleSplit /\ IdleBatcher /\ IdleSegmenter /\ IdleHashtag
    /\ IdleTranslateBatch /\ InitMain /\ InitCombine /\ IdlePoi

NextTranslate ==
    \/ MainNoApiKey /\ UNCHANGED <<varsNotTranslate, varsCombine>>
    \/ MainStart /\ UNCHANGED <<varsNotTranslate, varsCombine>>
    \/ MainSubmit /\ UNCHANGED <<varsNotTranslate, varsCombine>>
    \/ MainServiceReplies /\ UNCHANGED <<varsNotTranslate, varsCombine>>
    \/ MainServiceRaises /\ UNCHANGED <<varsNotTranslate, varsCombine>>
    \/ MainWrite /\ UNCHANGED <<varsNotTranslate, varsCombine>>
    \/ MainSleep /\ UNCHANGED <<varsNotTranslate, varsCombine>>
    \/ CombineBatches /\ UNCHANGED <<varsNotTranslate, varsMain>>

SpecTranslate == InitTranslate /\ [][NextTranslate]_vars

varsNotEmbed == <<varsSplit, varsBatcher, varsSegmenter, varsHashtag,
                  varsTranslateBatch, varsMain, varsCombine, varsOptimize, varsSave>>
varsNotOptimize == <<varsSplit, varsBatcher, varsSegmenter, varsHashtag,
                     varsTranslateBatch, varsMain, varsCombine, varsEmbed, varsSave>>
varsNotSave == <<varsSplit, varsBatcher, varsSegmenter, varsHashtag,
                 varsTranslateBatch, varsMain, varsCombine, varsEmbed, varsOptimize>>

\* generate_embeddings.py: a POI file is parsed and its POIs are embedded
InitEmbeddings ==
    /\ IdleSplit /\ IdleBatcher /\ IdleSegmenter /\ IdleHashtag
    /\ IdleTranslateBatch /\ IdleMain /\ IdleCombine
    /\ InitEmbed /\ IdleOptimize /\ IdleSave

NextEmbeddings ==
    \/ ParsePoiFiles /\ UNCHANGED varsNotEmbed
    \/ EmbedSubmit /\ UNCHANGED varsNotEmbed
    \/ EmbedServiceReplies /\ UNCHANGED varsNotEmbed
    \/ EmbedServiceRaises /\ UNCHANGED varsNotEmbed
    \/ EmbedSleep /\ UNCHANGED varsNotEmbed
    \/ EmbedDone /\ UNCHANGED varsNotEmbed

SpecEmbeddings == InitEmbeddings /\ [][NextEmbeddings]_vars

\* optimize_embedding applied to a vector, or save_embeddings_to_json
\* applied to a list of POIs
InitCompactor ==
    /\ IdleSplit /\ IdleBatcher /\ IdleSegmenter /\ IdleHashtag
    /\ IdleTranslateBatch /\ IdleMain /\ IdleCombine /\ IdleEmbed
    /\ \/ InitOptimize /\ IdleSave
       \/ IdleOptimize /\ InitSave

NextCompactor ==
    \/ OptimizeEmbedding /\ UNCHANGED varsNotOptimize
    \/ OptimizeEmbeddingAgain /\ UNCHANGED varsNotOptimize
    \/ SaveEmbeddingsToJson /\ UNCHANGED varsNotSave
    \/ SaveEmbeddingsFails /\ UNCHANGED varsNotSave

SpecCompactor == InitCompactor /\ [][NextCompactor]_vars

\* The two loops that call an external service: translate_text.py run on an
\* input file, or generate_embeddings.py run on a POI file
InitServiceLoops ==
    /\ IdleSplit /\ IdleBatcher /\ IdleSegmenter /\ IdleHashtag
    /\ IdleTranslateBatch /\ IdleCombine /\ IdleOptimize /\ IdleSave
    /\ \/ InitMain /\ IdleEmbed
       \/ IdleMain /\ InitEmbed

NextServiceLoops ==
    \/ MainNoApiKey /\ UNCHANGED <<varsNotTranslate, varsCombine>>
    \/ MainStart /\ UNCHANGED <<varsNotTranslate, varsCombine>>
    \/ MainSubmit /\ UNCHANGED <<varsNotTranslate, varsCombine>>
    \/ MainServiceReplies /\ UNCHANGED <<varsNotTranslate, varsCombine>>
    \/ MainServiceRaises /\ UNCHANGED <<varsNotTranslate, varsCombine>>
    \/ MainWrite /\ UNCHANGED <<varsNotTranslate, varsCombine>>
    \/ MainSleep /\ UNCHANGED <<varsNotTranslate, varsCombine>>
    \/ ParsePoiFiles /\ UNCHANGED varsNotEmbed
    \/ EmbedSubmit /\ UNCHANGED varsNotEmbed
    \/ EmbedServiceReplies /\ UNCHANGED varsNotEmbed
    \/ EmbedServiceRaises /\ UNCHANGED varsNotEmbed
    \/ EmbedSleep /\ UNCHANGED varsNotEmbed
    \/ EmbedDone /\ UNCHANGED varsNotEmbed

SpecServiceLoops == InitServiceLoops /\ [][NextServiceLoops]_vars

(***************************************************************************)
(* Properties of the chunk planner.                                        *)
(***************************************************************************)
\* The chunk size in ticks.
ChunkTicks == chunk_duration(chunk_duration_minutes) * TicksPerSecond

\* floor(total_duration / chunk_size) and ceil(total_duration / chunk_size),
\* by their defining inequalities.
FloorQuotient ==
    CHOOSE k \in 0..total_duration :
        k * ChunkTicks <= total_duration /\ total_duration < (k + 1) * ChunkTicks

CeilQuotient ==
    CHOOSE k \in 0..total_duration :
        (k - 1) * ChunkTicks < total_duration /\ total_duration <= k * ChunkTicks

WindowEnd(w) == (w.start_time + w.duration) * TicksPerSecond

\* C3: split_audio plans exactly floor(total_duration/chunk_size) + 1 windows,
\* and when all of them have been cut, the intervals [start, start+length]
\* begin at 0, leave no gap between consecutive windows and reach
\* total_duration.
C3_CountAndCoverage ==
    /\ split_pc \in {"loop", "done", "failed"} => total_chunks = FloorQuotient + 1
    /\ split_pc = "done" =>
          /\ Len(ffmpeg_cmds) = FloorQuotient + 1
          /\ ffmpeg_cmds[1].start_time = 0
          /\ \A k \in 1..(Len(ffmpeg_cmds) - 1) :
                ffmpeg_cmds[k + 1].start_time * TicksPerSecond <= WindowEnd(ffmpeg_cmds[k])
          /\ WindowEnd(ffmpeg_cmds[Len(ffmpeg_cmds)]) >= total_duration

C3_Witness ==
    /\ split_pc = "done"
    /\ Len(ffmpeg_cmds) >= 3
    /\ total_duration % ChunkTicks # 0
    /\ overlap_seconds = 0

\* Window i of the contract: {start: i*chunk_size, length: chunk_size+overlap}.
ContractWindow(i) ==
    [start_time |-> i * chunk_duration_minutes * 60,
     duration |-> chunk_duration_minutes * 60 + overlap_seconds]

\* C4 as stated: the windows cut are window i for exactly the indices
\* i in 0 .. ceil(total_duration/chunk_size), in increasing order of i.
C4_WindowsUpToCeil ==
    split_pc = "done" =>
        ffmpeg_cmds = [k \in 1..(CeilQuotient + 1) |-> ContractWindow(k - 1)]

\* C4 amended: the windows cut are window i for exactly the indices
\* i in 0 .. floor(total_duration/chunk_size), in increasing order of i; while
\* the loop runs, the windows cut so far are a prefix of that sequence.
C4_WindowsUpToFloor ==
    /\ split_pc = "done" =>
          ffmpeg_cmds = [k \in 1..(FloorQuotient + 1) |-> ContractWindow(k - 1)]
    /\ split_pc \in {"loop", "failed"} =>
          /\ Len(ffmpeg_cmds) <= FloorQuotient + 1
          /\ ffmpeg_cmds = [k \in 1..Len(ffmpeg_cmds) |-> ContractWindow(k - 1)]

C4_Witness ==
    /\ split_pc = "done"
    /\ total_duration % ChunkTicks # 0
    /\ CeilQuotient = 3
    /\ Len(ffmpeg_cmds) = 3
    /\ overlap_seconds > 0

\* C13: a chunk duration of zero or less is rejected: the run fails at
\* once, no window is planned, the external splitter is never called and
\* the run does not complete.
C13_NonPositiveChunkRejected ==
    chunk_duration_minutes <= 0 =>
        /\ split_pc \in {"start", "zero_division"}
        /\ total_chunks = 0
        /\ ffmpeg_cmds = <<>>

\* What the code does with a negative chunk duration: a window of negative
\* length is handed to ffmpeg.
C13_NegativeWindowSentToFfmpeg ==
    /\ chunk_duration_minutes < 0
    /\ ffmpeg_cmds # <<>>
    /\ ffmpeg_cmds[1].duration < 0

(***************************************************************************)
(* Properties of the batcher.                                              *)
(***************************************************************************)
\* The cumulative estimated size of a batch: the sum of len(section)//2.
BatchEstimate(b) == SumSeq([k \in 1..Len(b) |-> Len(b[k]) \div 2])

\* C1: the in-order concatenation of the returned batches is the input
\* sequence, no returned batch is empty, and an empty input yields no batch.
C1_Partition ==
    cb_pc = "done" =>
        /\ Flatten(cb_result) = cb_sections
        /\ \A k \in 1..Len(cb_result) : cb_result[k] # <<>>
        /\ cb_sections = <<>> => cb_result = <<>>

C1_Witness ==
    /\ cb_pc = "done"
    /\ Len(cb_result) >= 2
    /\ \E k \in 1..Len(cb_result) : Len(cb_result[k]) >= 2
    /\ Len(cb_result[1]) = 1
    /\ BatchEstimate(cb_result[1]) > cb_token_limit

\* C2: a returned batch whose cumulative estimate exceeds token_limit holds
\* exactly one section, and a section whose own estimate exceeds token_limit
\* is alone in its batch.
C2_OverLimitOnlyAlone ==
    cb_pc = "done" =>
        \A k \in 1..Len(cb_result) :
            /\ BatchEstimate(cb_result[k]) > cb_token_limit => Len(cb_result[k]) = 1
            /\ (\E j \in 1..Len(cb_result[k]) :
                    Len(cb_result[k][j]) \div 2 > cb_token_limit)
                  => Len(cb_result[k]) = 1

\* An oversized section in the middle of the input, between two batches of
\* several sections.
C2_Witness ==
    /\ cb_pc = "done"
    /\ Len(cb_result) = 3
    /\ Len(cb_result[1]) >= 2
    /\ Len(cb_result[2]) = 1
    /\ BatchEstimate(cb_result[2]) > cb_token_limit
    /\ Len(cb_result[3]) >= 1

\* C15: the batcher is greedy: for every two consecutive returned batches,
\* the cumulative estimate of the earlier one plus the estimate of the first
\* section of the later one is strictly greater than token_limit, so no
\* section opens a new batch while it would still fit in the current one.
C15_Greedy ==
    cb_pc = "done" =>
        \A k \in 1..(Len(cb_result) - 1) :
            BatchEstimate(cb_result[k]) + Len(cb_result[k + 1][1]) \div 2
                > cb_token_limit

\* Three batches, the first of which is filled exactly to the limit by two
\* sections and is followed by a section that fits the limit on its own.
C15_Witness ==
    /\ cb_pc = "done"
    /\ Len(cb_result) = 3
    /\ Len(cb_result[1]) = 2
    /\ BatchEstimate(cb_result[1]) = cb_token_limit
    /\ Len(cb_result[2][1]) \div 2 <= cb_token_limit
    /\ Len(cb_result[2][1]) \div 2 > 0

(***************************************************************************)
(* Properties of the segmenters.                                           *)
(***************************************************************************)
\* The fragments of a text between the occurrences of a delimiter, read off
\* one character at a time.
RECURSIVE FragmentsOf(_, _, _)
FragmentsOf(rest, delimiter, fragment) ==
    IF rest = <<>> THEN <<fragment>>
    ELSE IF Len(rest) >= Len(delimiter) /\ SubSeq(rest, 1, Len(delimiter)) = delimiter
         THEN <<fragment>> \o FragmentsOf(SubSeq(rest, Len(delimiter) + 1, Len(rest)),
                                          delimiter, <<>>)
         ELSE FragmentsOf(Tail(rest), delimiter, Append(fragment, Head(rest)))

AllWhitespace(s) == \A k \in 1..Len(s) : s[k] \in Whitespace

\* t is s without its leading and trailing whitespace
IsTrimOf(t, s) ==
    /\ t = <<>> \/ (t[1] \notin Whitespace /\ t[Len(t)] \notin Whitespace)
    /\ \E a, b \in 0..Len(s) :
          /\ a + b <= Len(s)
          /\ AllWhitespace(SubSeq(s, 1, a))
          /\ AllWhitespace(SubSeq(s, Len(s) - b + 1, Len(s)))
          /\ t = SubSeq(s, a + 1, Len(s) - b)

\* The fragments of a text that are not empty after trimming, in order.
NonEmptyFragments(text, delimiter) ==
    SelectSeq(FragmentsOf(text, delimiter, <<>>), LAMBDA f : ~AllWhitespace(f))

\* result is, in order, the trimmed non-empty fragments of content
IsSegmentation(result, content) ==
    LET kept == NonEmptyFragments(content, <<"-", "-", "-">>)
    IN /\ Len(result) = Len(kept)
       /\ \A k \in 1..Len(kept) : IsTrimOf(result[k], kept[k])
       /\ \A k \in 1..Len(result) :
             /\ result[k] # <<>>
             /\ result[k][1] \notin Whitespace
             /\ result[k][Len(result[k])] \notin Whitespace
             /\ ~Contains(result[k], <<"-", "-", "-">>)

\* C9: split_into_sections (and the same split in parse_poi_file) returns, in
\* their original order, exactly the trimmed fragments of content between
\* the "---" delimiters that are non-empty after trimming; every section is
\* non-empty, has no leading or trailing whitespace and does not contain the
\* delimiter; two runs on the same input agree.
C9_Segmentation ==
    /\ seg_pc \in {"split", "both"} => IsSegmentation(seg_sections, seg_content)
    /\ seg_pc \in {"parsed", "both"} => IsSegmentation(poi_contents, seg_content)
    /\ seg_pc = "both" => seg_sections = poi_contents

C9_Witness ==
    /\ seg_pc = "both"
    /\ seg_content = AlphaBetaGamma
    /\ seg_sections = << <<"A", "l", "p", "h", "a">>, <<"B", "e", "t", "a">>,
                         <<"G", "a", "m", "m", "a">> >>

\* The sections of the contract of hashtag segmentation: scanning the
\* non-empty (trimmed) fragments left to right, a fragment under the
\* threshold that is followed by another one is merged with it as
\* title:body, every other fragment stands alone.
RECURSIVE TitleBodySections(_)
TitleBodySections(fragments) ==
    IF fragments = <<>> THEN <<>>
    ELSE IF Len(fragments) >= 2 /\ Len(fragments[1]) < 50
         THEN <<fragments[1] \o <<":">> \o fragments[2]>>
                  \o TitleBodySections(SubSeq(fragments, 3, Len(fragments)))
         ELSE <<fragments[1]>> \o TitleBodySections(Tail(fragments))

\* C10 as stated: the sections of process_combined_text are the title:body
\* merge of the non-empty fragments, title and body both non-empty, each
\* non-empty fragment in exactly one section, in fragment order.
C10_TitleBodyMerge ==
    ht_pc = "done" =>
        ht_parts = TitleBodySections(
                       MapSeq(NonEmptyFragments(ht_content, <<"#">>), Strip))

(***************************************************************************)
(* Properties of translate_batch.                                          *)
(***************************************************************************)
\* C6: when the service call fails, translate_batch does not raise and
\* returns exactly len(batch) elements, each the marker "[Translation Error]".
C6_ErrorMarkerPerSection ==
    (tb_pc = "done" /\ tb_outcome.raised) =>
        /\ ~tb_return.raised
        /\ Len(tb_return.value) = Len(tb_batch)
        /\ \A k \in 1..Len(tb_return.value) :
              tb_return.value[k] =
                  <<"[", "T", "r", "a", "n", "s", "l", "a", "t", "i", "o", "n", " ",
                    "E", "r", "r", "o", "r", "]">>

C6_Witness ==
    /\ tb_pc = "done"
    /\ tb_outcome.raised
    /\ Len(tb_batch) = 3
    /\ Len(tb_return.value) = 3

\* The units of a reply: the trimmed pieces of the cleaned reply between the
\* "[SECTION_BREAK]" tokens, empty ones included.
UnitsOfReply(text) == FragmentsOf(translation(text), section_separator, <<>>)

\* C7: when the service replies, translate_batch returns exactly the units
\* of the reply in response order, whether or not their number is that of
\* the batch's sections: no unit is dropped and no placeholder is added.
C7_UnitsUnpadded ==
    (tb_pc = "done" /\ ~tb_outcome.raised) =>
        /\ ~tb_return.raised
        /\ Len(tb_return.value) = Len(UnitsOfReply(tb_outcome.text))
        /\ \A k \in 1..Len(tb_return.value) :
              IsTrimOf(tb_return.value[k], UnitsOfReply(tb_outcome.text)[k])

\* A batch of 3 sections whose reply has 2 units.
C7_Witness ==
    /\ tb_pc = "done"
    /\ ~tb_outcome.raised
    /\ Len(tb_batch) = 3
    /\ tb_return.value = << <<"x">>, <<"x">> >>

(***************************************************************************)
(* Properties of the dispatcher loop and of the reassembly.                *)
(***************************************************************************)
MainRunning == main_pc \in {"submit", "awaiting", "write", "sleep"}

\* C5: the service is sent batch 1, batch 2, ... in batcher order, each
\* once; batch k+1 is sent only after the result of batch k has been
\* obtained; no failure of the service ends the run: the run goes on until
\* every batch has been sent.
C5_EachBatchOnceInOrder ==
    /\ main_pc # "crashed"
    /\ (MainRunning \/ main_pc = "done") =>
          /\ Len(service_log) <= Len(main_batches)
          /\ \A k \in 1..Len(service_log) :
                service_log[k] = Join(main_batches[k], section_separator \o <<"\n">>)
          /\ Len(results) =
                IF main_pc = "awaiting" THEN Len(service_log) - 1 ELSE Len(service_log)
          /\ main_pc = "submit" => Len(service_log) = batch_i
          /\ main_pc = "done" => Len(service_log) = Len(main_batches)
    /\ MainRunning =>
          ENABLED (MainSubmit \/ MainServiceReplies \/ MainServiceRaises
                      \/ MainWrite \/ MainSleep)

\* Three batches, the first of which failed, all sent.
C5_Witness ==
    /\ main_pc = "done"
    /\ Len(main_batches) = 3
    /\ main_batches[1] = << <<"a">> >>
    /\ Len(service_log) = 3
    /\ results[1] = <<TranslationError>>
    /\ results[2] # <<TranslationError>>

ReadBack(result) ==
    NonEmptyFragments(Join(result, <<"\n", "-", "-", "-", "\n">>),
                      <<"\n", "-", "-", "-", "\n">>)

UnitCountsMatch ==
    /\ Len(results) = Len(main_batches)
    /\ \A k \in 1..Len(results) : Len(results[k]) = Len(main_batches[k])

\* C17: when the result of every batch has as many units as the batch has
\* sections, the combined corpus has as many sections as the input sequence
\* and its k-th section is the result for the k-th input section.
C17_LengthConsistent ==
    (combine_pc = "done" /\ main_pc = "done" /\ UnitCountsMatch) =>
        /\ Len(combined_content) = Len(split_into_sections(input_text))
        /\ \A k \in 1..Len(combined_content) :
              combined_content[k] = Flatten(results)[k]

\* A batch of two sections answered by two units, the second one blank: the
\* combined corpus has one section for two input sections.
C17_BlankUnitLost ==
    /\ combine_pc = "done"
    /\ main_pc = "done"
    /\ UnitCountsMatch
    /\ main_batches = << << <<"a">>, <<"a">> >> >>
    /\ results = << << <<"x">>, <<>> >> >>
    /\ combined_content = << <<"x">> >>

(***************************************************************************)
(* Properties of the embedding loop.                                       *)
(***************************************************************************)
\* C16: the POI rebuilt with its embedding has the content of the parsed
\* POI and has a location exactly when the parsed POI has one, with the same
\* latitude and longitude, a coordinate of 0 included; the rebuilt POIs are
\* one per parsed POI, in the same order.
C16_RebuildKeepsLocation ==
    /\ ge_pc = "done" => Len(ge_processed) = Len(ge_pois)
    /\ Len(ge_processed) <= Len(ge_pois)
    /\ \A k \in 1..Len(ge_processed) :
          /\ ge_processed[k].content = ge_pois[k].content
          /\ ge_processed[k].latitude = ge_pois[k].latitude
          /\ ge_processed[k].longitude = ge_pois[k].longitude

\* A POI parsed with latitude 0 and longitude -74 is rebuilt without a
\* location.
C16_ZeroLatitudeLosesLocation ==
    /\ ge_pc = "done"
    /\ Len(ge_pois) = 1
    /\ ge_pois[1].latitude = SomeFloat(0)
    /\ ge_pois[1].longitude = SomeFloat(-740)
    /\ ge_processed[1].latitude = NoFloat
    /\ ge_processed[1].longitude = NoFloat

(***************************************************************************)
(* Properties of the vector compactor.                                     *)
(***************************************************************************)
\* r is x rounded to d decimal places: a whole number of units of the d-th
\* place that no other such number is nearer to x than.
IsRounded(r, x, d) ==
    LET unit == IF d >= FineDigits THEN 1 ELSE Pow10(FineDigits - d)
        distance == IF r >= x THEN r - x ELSE x - r
    IN /\ r % unit = 0
       /\ 2 * distance <= unit

\* rs is xs rounded to d decimal places, component by component.
IsRoundedVector(rs, xs, d) ==
    /\ Len(rs) = Len(xs)
    /\ \A i \in 1..Len(xs) : IsRounded(rs[i], xs[i], d)

\* C11: optimize_embedding(v, d) has the length of v and its i-th component
\* is v[i] rounded to d decimal places; applied to its own value at the same
\* d it returns that value; and the file save_embeddings_to_json writes,
\* compressed or not, holds for every POI with an embedding the rounded
\* embedding.
C11_RoundingIdempotent ==
    /\ oe_pc \in {"once", "twice"} =>
          IsRoundedVector(oe_once, oe_embedding, oe_decimals)
    /\ oe_pc = "twice" => oe_twice = oe_once
    /\ sv_pc = "done" =>
          /\ sv_file.holds.gzip = sv_compress
          /\ Len(sv_file.holds.json) = Len(sv_pois)
          /\ \A k \in 1..Len(sv_pois) :
                sv_pois[k].embedding.v # <<>> =>
                    /\ sv_file.holds.json[k].e.some
                    /\ IsRoundedVector(sv_file.holds.json[k].e.v,
                                       sv_pois[k].embedding.v, sv_decimals)

\* A vector with a component that is halfway between two values of the
\* last place kept, rounded twice.
C11_Witness ==
    /\ oe_pc = "twice"
    /\ oe_decimals = MaxDecimals
    /\ oe_embedding = <<15, -5>>
    /\ oe_once # oe_embedding

\* A compressed file that holds a rounded embedding.
C11_SavedWitness ==
    /\ sv_pc = "done"
    /\ sv_compress
    /\ sv_decimals = MaxDecimals
    /\ Len(sv_pois) = 1
    /\ sv_pois[1].embedding.v = <<125, -5>>
    /\ sv_file.holds.json[1].e.v # <<125, -5>>

\* The record of a POI carries its id and its content, has no location
\* field when the POI has no location, and the pair of the POI's
\* coordinates when it has one.
RecordKeepsPoi(record, poi) ==
    /\ record.i = poi.id
    /\ record.c = poi.content
    /\ IF poi.latitude.some /\ poi.longitude.some
       THEN /\ DOMAIN record = {"i", "c", "e", "l"}
            /\ record.l[1].some /\ record.l[1].v = poi.latitude.v
            /\ record.l[2].some /\ record.l[2].v = poi.longitude.v
       ELSE DOMAIN record = {"i", "c", "e"}

\* C12 as stated: the records are one per POI, in the order of the POIs;
\* each carries the POI's id, content and location as above, and the
\* POI's embedding rounded to the export precision.
C12_RecordOfEveryPoi ==
    sv_pc \in {"done", "failed"} =>
        /\ Len(sv_pois_data) = Len(sv_pois)
        /\ \A k \in 1..Len(sv_pois) :
              /\ RecordKeepsPoi(sv_pois_data[k], sv_pois[k])
              /\ sv_pois_data[k].e.some
              /\ IsRoundedVector(sv_pois_data[k].e.v, sv_pois[k].embedding.v,
                                 sv_decimals)

\* C12 amended: the same, except that the record of a POI whose embedding
\* is empty has a null embedding, not an empty vector.
C12_RecordOfEveryPoiNullForEmpty ==
    sv_pc \in {"done", "failed"} =>
        /\ Len(sv_pois_data) = Len(sv_pois)
        /\ \A k \in 1..Len(sv_pois) :
              /\ RecordKeepsPoi(sv_pois_data[k], sv_pois[k])
              /\ IF sv_pois[k].embedding.v = <<>>
                 THEN sv_pois_data[k].e = NoList
                 ELSE /\ sv_pois_data[k].e.some
                      /\ IsRoundedVector(sv_pois_data[k].e.v,
                                         sv_pois[k].embedding.v, sv_decimals)

\* Two POIs saved: the first with a location on the equator and an empty
\* embedding, the second without a location and with an embedding that the
\* rounding changes.
C12_Witness ==
    /\ sv_pc = "done"
    /\ sv_decimals = MaxDecimals
    /\ Len(sv_pois) = 2
    /\ sv_pois[1].id > sv_pois[2].id
    /\ sv_pois[1].latitude = SomeFloat(0)
    /\ sv_pois[1].embedding.v = <<>>
    /\ ~sv_pois[2].latitude.some
    /\ sv_pois[2].embedding.v = <<125, -5>>
    /\ DOMAIN sv_pois_data[1] = {"i", "c", "e", "l"}
    /\ DOMAIN sv_pois_data[2] = {"i", "c", "e"}

(***************************************************************************)
(* Properties of the delay between service calls.                          *)
(***************************************************************************)
\* The delays taken in the embedding loop: one after every call made, the
\* last call and the failed calls included.
EmbeddingDelays ==
    /\ ge_pc \in {"loop", "done"} => ge_sleeps = Len(ge_calls)
    /\ ge_pc \in {"awaiting", "sleep"} => ge_sleeps = Len(ge_calls) - 1

\* C14 as stated: in the translation loop and in the embedding loop the
\* delay is taken after every service call, failed or not, the last call of
\* the run included: a call is made only when every earlier call was
\* followed by a delay, and the run ends with as many delays as calls.
C14_DelayAfterEveryCall ==
    /\ main_pc \in {"submit", "done"} => sleeps = Len(service_log)
    /\ main_pc \in {"awaiting", "write", "sleep"} => sleeps = Len(service_log) - 1
    /\ EmbeddingDelays

\* C14 amended: in the translation loop the delay is taken after every call
\* but the last, failed or not; in the embedding loop after every call.
C14_DelayBetweenCalls ==
    /\ main_pc = "submit" => sleeps = Len(service_log)
    /\ main_pc \in {"awaiting", "write", "sleep"} => sleeps = Len(service_log) - 1
    /\ main_pc = "done" =>
          /\ Len(service_log) = Len(main_batches)
          /\ sleeps = IF main_batches = <<>> THEN 0 ELSE Len(service_log) - 1
    /\ EmbeddingDelays

\* Three batches sent, the first call failed: two delays.
C14_Witness ==
    /\ main_pc = "done"
    /\ Len(main_batches) = 3
    /\ main_batches[1] = << <<"a">> >>
    /\ Len(service_log) = 3
    /\ results[1] = <<TranslationError>>
    /\ sleeps = 2

\* Two POIs embedded, the last call failed: two delays.
C14_EmbeddingWitness ==
    /\ ge_pc = "done"
    /\ Len(ge_calls) = 2
    /\ ge_processed[2].embedding = SomeList(<<>>)
    /\ ge_sleeps = 2

====
